---- MODULE Spec2Model ----
(***************************************************************************)
(* The `influx` export pipeline of glowmarkt-rs (src/src/main.rs): fetch   *)
(* the resource collection, fetch the device(s), fetch the half-hourly     *)
(* readings of every sensor's resource, group the measurements by          *)
(* timestamp in a BTreeMap, strip zero buckets unless --no-strip, print.   *)
(***************************************************************************)
EXTENDS Integers, Sequences, FiniteSets

\* ---------------------------------------------------------------- bounds
\* Total number of data tuples the remote holds for the requested window.
MaxReadings == 3
\* Total number of sensors over all devices of the account.
MaxSensors == 2
\* Number of runs of the pipeline over the same remote data (SpecRepeat).
MaxRuns == 2

\* ------------------------------------------------------- the remote account
DeviceIds == {"d1", "d2"}
ResourceIds == {"r1", "r2"}
\* A resource id a sensor may carry that the resource collection does not hold.
UnknownResource == "rx"
SensorResourceIds == ResourceIds \cup {UnknownResource}
\* The id a user may pass with --device that no device of the account has.
UnknownDevice == "dx"
\* Unix timestamps of the interval starts in the requested window.
Timestamps == {1, 2, 3}
\* Reading values in tenths of a unit: 0 is 0.0, 35 is 3.5.
Values == {0, 35}
NoDevice == "none"

\* The resources a device processed on its own may have sensors for.
DeviceResourceIds == ResourceIds \cup {"r3", "r4"}

\* Resource::classifier (Option<String>) of the resources: in the field-name
\* table, not in it, or None ("absent").
ClassifierOf(r) ==
    CASE r = "r1" -> "electricity.consumption"
      [] r = "r3" -> "electricity.cost"
      [] r = "r4" -> "gas.flow"
      [] OTHER    -> "absent"

RECURSIVE SeqsUpTo(_, _)
SeqsUpTo(S, n) ==
    IF n = 0 THEN {<<>>}
    ELSE LET shorter == SeqsUpTo(S, n - 1)
         IN  shorter \cup {Append(s, x) : s \in {q \in shorter : Len(q) = n - 1}, x \in S}

\* type ReadingTuple = (i64, f32)
ReadingTuple == Timestamps \X Values

RECURSIVE SumLen(_, _)
SumLen(f, S) ==
    IF S = {} THEN 0
    ELSE LET x == CHOOSE y \in S : TRUE
         IN  Len(f[x]) + SumLen(f, S \ {x})

\* DeviceProtocol::sensors of every device: the resource id of each sensor.
\* The devices differ in their ids only, so d1 is taken to be one with the
\* most sensors.
Accounts ==
    {a \in [DeviceIds -> SeqsUpTo(SensorResourceIds, MaxSensors)] :
        /\ SumLen(a, DeviceIds) <= MaxSensors
        /\ \A d \in DeviceIds : Len(a[d]) <= Len(a["d1"])}

\* ReadingsResponse::data as the remote sends it for one resource: at most n
\* tuples, one per interval of the window, in chronological order.
Responses(n) ==
    {data \in SeqsUpTo(ReadingTuple, n) :
        \A i \in 1..(Len(data) - 1) : data[i][1] < data[i + 1][1]}

\* Orders in which HashMap::into_values may yield the devices.
DeviceOrders ==
    {o \in SeqsUpTo(DeviceIds, Cardinality(DeviceIds)) :
        /\ Len(o) = Cardinality(DeviceIds)
        /\ \A i, j \in 1..Len(o) : i # j => o[i] # o[j]}

\* ------------------------------------------------------------------ state
VARIABLES
    sensors,       \* the account: device id -> resource ids of its sensors
    remote,        \* the data tuples the remote holds per resource (revealed on first fetch)
    device,        \* --device: a device id, or NoDevice for all devices
    no_strip,      \* --no-strip
    pc,            \* position of the run in influx()
    resources,     \* ids of the fetched resource collection
    queue,         \* devices still to be processed, current one first
    si,            \* index of the next sensor of the current device
    order,         \* the devices in the order this run processes them
    measurements,  \* BTreeMap<OffsetDateTime, Vec<Measurement>>, ascending entries
    before,        \* the map as it was when the strip step began
    arrived,       \* every measurement built, in the order it was built
    requests,      \* remote calls issued in this run, in order
    output,        \* lines written to stdout
    stderr,        \* lines written to stderr: eprintln!, log::error!, main's Err
    result,        \* result of influx(): "running", "ok" or "err"
    run,           \* number of the current run
    previous,      \* stdout and result of the previous run
    from,          \* the from argument: the text given for the start of the window
    to,            \* the to argument: the text given for its end, if any
    window,        \* start and end as parsed, once both are
    \* one call of GlowmarktApi::readings
    call_data,     \* ReadingsResponse::data, the tuples of the remote's response
    call_period,   \* the ReadingPeriod of the call
    returned,      \* the call's result: <<"pending">>, <<"err">> or <<"ok", readings>>
    \* one call of process_device
    owner,         \* the device being processed
    device_tags,   \* let tags = tags_for_device(&device)
    todo,          \* resources of the device's sensors still to be visited
    mapped,        \* per sensor visited: its resource, the outcome, the measurements built
    \* one call of login
    args,          \* Args: token, username and password, each given or not
    lpc,           \* position in login(): "token", "credentials" or "done"
    exchanges,     \* remote calls issued by login, in order, with response and outcome
    api,           \* the GlowmarktApi handle login holds, if any
    lresult        \* result of login(): <<"running">>, <<"Ok">> or <<"Err", message>>

\* The window of the run: its two arguments and what they parse to.
dates == <<from, to, window>>

\* What a library call made outside an influx run leaves alone: all of the
\* run's state but stderr, where api_call logs.
influxState == <<sensors, remote, device, no_strip, pc, resources, queue, si, order,
                 measurements, before, arrived, requests, output, result,
                 run, previous, dates>>

pipeline == <<influxState, stderr>>

readingsCall == <<call_data, call_period, returned>>

deviceCall == <<owner, device_tags, todo, mapped>>

loginCall == <<args, lpc, exchanges, api, lresult>>

\* What an influx run leaves alone.
library == <<readingsCall, deviceCall, loginCall>>

vars == <<pipeline, library>>

config == <<sensors, device, no_strip, from, to>>

\* ------------------------------------------------------- the window's dates
\* Texts OffsetDateTime::parse(.., &Iso8601::DEFAULT) accepts.
IsoDates == {"2022-01-01T00:00:00Z", "2022-01-02T00:00:00Z"}

\* Texts that start with '-' and whose rest date.parse::<i64>() accepts, with
\* the minutes they give.
Offset(date) ==
    CASE date = "-1440" -> <<1440>>
      [] date = "-60"   -> <<60>>
      [] OTHER          -> <<>>

\* date.strip_prefix('-') is Some.
HasMinus(date) == date \in {"-1440", "-60", "-x"}

\* A point in time: an ISO-8601 date or the time of the run, less some minutes.
Moment(base, minus) == [base |-> base, minus |-> minus]

\* The message of the error the time crate gives for a text that is not ISO-8601.
IsoError(date) ==
    IF date = "2022-13-45"
        THEN "unexpected trailing characters; the end of input was expected"
        ELSE "the 'year' component could not be parsed"

\* fn parse_date
parse_date(date) ==
    IF HasMinus(date)
        THEN IF Offset(date) = <<>>
                THEN <<"Err", "invalid digit found in string">>
                ELSE <<"Ok", Moment("now", Offset(date)[1])>>
    ELSE IF date \in IsoDates
        THEN <<"Ok", Moment(date, 0)>>
    ELSE <<"Err", IsoError(date)>>

\* fn parse_end_date
parse_end_date(date) ==
    IF date = <<>> THEN <<"Ok", Moment("now", 0)>>
    ELSE IF HasMinus(date[1])
        THEN IF Offset(date[1]) = <<>>
                THEN <<"Err", "invalid digit found in string">>
                ELSE <<"Ok", Moment("now", Offset(date[1])[1])>>
    ELSE IF date[1] \in IsoDates
        THEN <<"Ok", Moment(date[1], 0)>>
    ELSE <<"Err", IsoError(date[1])>>

\* The from and to arguments of the command lines run.
DateArgs ==
    {<<"-1440", <<>>>>,
     <<"2022-01-01T00:00:00Z", <<"2022-01-02T00:00:00Z">>>>,
     <<"2022-01-01T00:00:00Z", <<"-60">>>>,
     <<"yesterday", <<>>>>,
     <<"2022-13-45", <<>>>>,
     <<"-x", <<"tomorrow">>>>,
     <<"2022-01-01T00:00:00Z", <<"tomorrow">>>>,
     <<"-1440", <<"-x">>>>}

\* ------------------------------------------------------ the glowmarkt library
\* Seconds added to a reading's start to give its end.
PeriodLength(period) ==
    CASE period = "HalfHour" -> 30 * 60
      [] period = "Hour"     -> 60 * 60
      [] period = "Day"      -> 24 * 60 * 60
      [] period = "Week"     -> 7 * 24 * 60 * 60

\* enum ReadingPeriod
ReadingPeriod == {"HalfHour", "Hour", "Day", "Week"}

\* Readings with every end half an hour after its start, whatever the period.
ReadingsHalfHourEnd(data, period) ==
    [i \in 1..Len(data) |->
        [start |-> data[i][1],
         end   |-> data[i][1] + PeriodLength("HalfHour"),
         value |-> data[i][2]]]

\* GlowmarktApi::readings, the mapping of the response's data tuples.
Readings(data, period) ==
    [i \in 1..Len(data) |->
        [start |-> data[i][1],
         end   |-> data[i][1] + PeriodLength(period),
         value |-> data[i][2]]]

\* GlowmarktApi::device: the device with this id, if the account has one.
ApiDevice(id) == IF id \in DeviceIds THEN <<id>> ELSE <<>>

\* ------------------------------------------------------------ mod influx
\* influx::field_for_classifier
field_for_classifier(classifier) ==
    CASE classifier = "electricity.consumption" -> "consumption"
      [] classifier = "electricity.cost"        -> "cost"
      [] OTHER                                  -> "value"

\* influx::tags_for_device
tags_for_device(d) == [device |-> d]

\* influx::tags_for_resource: a new tag set, the given tags with the resource's
\* id and, when it has one, its classifier inserted.
tags_for_resource(tags, r) ==
    IF ClassifierOf(r) # "absent"
        THEN [device |-> tags.device, resource |-> r, classifier |-> ClassifierOf(r)]
    ELSE IF "classifier" \in DOMAIN tags
        THEN [device |-> tags.device, resource |-> r, classifier |-> tags.classifier]
    ELSE [device |-> tags.device, resource |-> r]

\* Measurement::new followed by add_field.
NewMeasurement(timestamp, tags, key, value) ==
    [name |-> "glowmarkt", timestamp |-> timestamp, tags |-> tags,
     fields |-> <<<<key, value>>>>]

\* impl Display for Measurement: the line written for one measurement.
Line(m) == <<m.name, m.tags, m.fields, m.timestamp>>

\* ------------------------------------------------- the aggregation BTreeMap
Keys(map) == {map[i].key : i \in 1..Len(map)}

Get(map, t) == (CHOOSE e \in {map[i] : i \in 1..Len(map)} : e.key = t).bucket

RECURSIVE Remove(_, _)
Remove(map, t) ==
    IF map = <<>> THEN <<>>
    ELSE IF Head(map).key = t THEN Tail(map)
    ELSE <<Head(map)>> \o Remove(Tail(map), t)

\* EntryPush with a new key always placed after the existing ones
\* (an insertion-ordered map in place of the BTreeMap).
RECURSIVE EntryPushUnsorted(_, _, _)
EntryPushUnsorted(map, t, m) ==
    IF map = <<>> THEN <<[key |-> t, bucket |-> <<m>>]>>
    ELSE IF Head(map).key = t
        THEN <<[key |-> t, bucket |-> Append(Head(map).bucket, m)]>> \o Tail(map)
    ELSE <<Head(map)>> \o EntryPushUnsorted(Tail(map), t, m)

\* EntryPush with the measurement placed first in its bucket (insert(0, m) for push).
RECURSIVE EntryPushFront(_, _, _)
EntryPushFront(map, t, m) ==
    IF map = <<>> THEN <<[key |-> t, bucket |-> <<m>>]>>
    ELSE IF Head(map).key = t
        THEN <<[key |-> t, bucket |-> <<m>> \o Head(map).bucket]>> \o Tail(map)
    ELSE IF Head(map).key > t
        THEN <<[key |-> t, bucket |-> <<m>>]>> \o map
    ELSE <<Head(map)>> \o EntryPushFront(Tail(map), t, m)

\* measurements.entry(t).or_default().push(m)
RECURSIVE EntryPush(_, _, _)
EntryPush(map, t, m) ==
    IF map = <<>> THEN <<[key |-> t, bucket |-> <<m>>]>>
    ELSE IF Head(map).key = t
        THEN <<[key |-> t, bucket |-> Append(Head(map).bucket, m)]>> \o Tail(map)
    ELSE IF Head(map).key > t
        THEN <<[key |-> t, bucket |-> <<m>>]>> \o map
    ELSE <<Head(map)>> \o EntryPush(Tail(map), t, m)

\* BuiltWith that names every field "value", without the classifier lookup.
BuiltWithDefaultKey(tags, r, readings) ==
    [i \in 1..Len(readings) |->
        NewMeasurement(readings[i].start,
                       tags_for_resource(tags, r),
                       "value",
                       readings[i].value)]

\* The measurements process_device builds from the readings of one resource,
\* given the device's tags.
BuiltWith(tags, r, readings) ==
    [i \in 1..Len(readings) |->
        NewMeasurement(readings[i].start,
                       tags_for_resource(tags, r),
                       field_for_classifier(ClassifierOf(r)),
                       readings[i].value)]

\* The measurements process_device builds from the readings of one resource.
Built(d, r, readings) == BuiltWith(tags_for_device(d), r, readings)

\* for reading in readings { ... measurements.entry(...).or_default().push(...) }
RECURSIVE PushAll(_, _)
PushAll(map, ms) ==
    IF ms = <<>> THEN map
    ELSE PushAll(EntryPush(map, Head(ms).timestamp, Head(ms)), Tail(ms))

\* .iter().all(|m| m.fields.iter().all(|(_, v)| *v == 0.0))
AllZero(bucket) ==
    \A i \in 1..Len(bucket) :
        \A k \in 1..Len(bucket[i].fields) : bucket[i].fields[k][2] = 0

\* measurements.keys().rev().cloned().collect()
RECURSIVE KeysRev(_)
KeysRev(map) ==
    IF map = <<>> THEN <<>> ELSE Append(KeysRev(Tail(map)), Head(map).key)

\* StripLoop that leaves the loop after the first timestamp it looked at.
StripLoopOnce(map, timestamps) ==
    IF timestamps = <<>> THEN map
    ELSE IF AllZero(Get(map, Head(timestamps)))
        THEN Remove(map, Head(timestamps))
        ELSE map

\* The bucket without its zero-valued measurements.
NonZeroOnly(bucket) ==
    LET nonZero(m) == \E k \in 1..Len(m.fields) : m.fields[k][2] # 0
    IN  SelectSeq(bucket, nonZero)

\* StripLoop that drops the zero-valued measurements of every bucket
\* (and a bucket left empty) in place of whole all-zero buckets.
RECURSIVE StripLoopMeasurements(_, _)
StripLoopMeasurements(map, timestamps) ==
    IF map = <<>> THEN <<>>
    ELSE (IF NonZeroOnly(Head(map).bucket) = <<>> THEN <<>>
          ELSE <<[key |-> Head(map).key, bucket |-> NonZeroOnly(Head(map).bucket)]>>)
         \o StripLoopMeasurements(Tail(map), timestamps)

\* for timestamp in timestamps { if all zero { measurements.remove(&timestamp) } }
RECURSIVE StripLoop(_, _)
StripLoop(map, timestamps) ==
    IF timestamps = <<>> THEN map
    ELSE StripLoop(IF AllZero(Get(map, Head(timestamps)))
                       THEN Remove(map, Head(timestamps))
                       ELSE map,
                   Tail(timestamps))

\* Stripped with the no_strip flag ignored.
StrippedAlways(map, noStrip) == StripLoop(map, KeysRev(map))

\* if !no_strip { ... }
Stripped(map, noStrip) ==
    IF noStrip THEN map ELSE StripLoop(map, KeysRev(map))

\* Lines that writes only the first measurement of every bucket.
RECURSIVE LinesFirstOnly(_)
LinesFirstOnly(map) ==
    IF map = <<>> THEN <<>>
    ELSE <<Line(Head(map).bucket[1])>> \o LinesFirstOnly(Tail(map))

\* for (_, measurements) in measurements { for measurement in measurements { println! } }
RECURSIVE Lines(_)
Lines(map) ==
    IF map = <<>> THEN <<>>
    ELSE [i \in 1..Len(Head(map).bucket) |-> Line(Head(map).bucket[i])]
         \o Lines(Tail(map))

\* ------------------------------------------------------------ the run
\* The next (device, sensor) position at or after sensor i of the first device of q.
RECURSIVE Position(_, _)
Position(q, i) ==
    IF q = <<>> THEN <<q, 1>>
    ELSE IF i > Len(sensors[Head(q)]) THEN Position(Tail(q), 1)
    ELSE <<q, i>>

\* Number of data tuples the remote has revealed so far.
Held == SumLen(remote, DOMAIN remote)

Request(call, arg, outcome) == [call |-> call, arg |-> arg, outcome |-> outcome]

NoPrevious == [output |-> <<>>, result |-> "none"]

StartOfRun ==
    /\ pc = "dates"
    /\ window = <<>>
    /\ resources = {}
    /\ queue = <<>>
    /\ si = 1
    /\ order = <<>>
    /\ measurements = <<>>
    /\ before = <<>>
    /\ arrived = <<>>
    /\ requests = <<>>
    /\ output = <<>>
    /\ stderr = <<>>
    /\ result = "running"

\* No call of GlowmarktApi::readings is under way.
ReadingsIdle ==
    /\ call_data = <<>>
    /\ call_period = "HalfHour"
    /\ returned = <<"idle">>

\* No separate call of process_device is under way.
DeviceIdle ==
    /\ owner = NoDevice
    /\ device_tags = [device |-> NoDevice]
    /\ todo = <<>>
    /\ mapped = <<>>

\* login has returned Ok and is over.
LoginIdle ==
    /\ args = [token |-> <<>>, username |-> <<>>, password |-> <<>>]
    /\ lpc = "idle"
    /\ exchanges = <<>>
    /\ api = <<>>
    /\ lresult = <<"idle">>

\* No influx run is under way.
PipelineIdle ==
    /\ sensors = [d \in DeviceIds |-> <<>>]
    /\ remote = <<>>
    /\ device = NoDevice
    /\ no_strip = FALSE
    /\ run = 1
    /\ previous = NoPrevious
    /\ pc = "idle"
    /\ resources = {}
    /\ queue = <<>>
    /\ si = 1
    /\ order = <<>>
    /\ measurements = <<>>
    /\ before = <<>>
    /\ arrived = <<>>
    /\ requests = <<>>
    /\ output = <<>>
    /\ stderr = <<>>
    /\ result = "idle"
    /\ from = ""
    /\ to = <<>>
    /\ window = <<>>

Init ==
    /\ ReadingsIdle
    /\ DeviceIdle
    /\ LoginIdle
    /\ sensors \in Accounts
    /\ remote = <<>>
    /\ device \in {NoDevice, UnknownDevice} \cup DeviceIds
    /\ no_strip \in BOOLEAN
    /\ \E given \in DateArgs : from = given[1] /\ to = given[2]
    /\ run = 1
    /\ previous = NoPrevious
    /\ StartOfRun

\* The ? operator on a failed call: influx returns the error.
Abort ==
    /\ pc' = "done"
    /\ result' = "err"

\* How a remote call fails: api_call gets a response whose status is not a
\* success, or the request, the body or its decoding fails.
FailureKinds == {"status", "other"}

\* Err(e) => Err(e) in main's tail expression: main returns influx's error and
\* the runtime writes it to stderr as an "Error: ..." line.
Reported(what) == <<"Error:", what>>

\* What api_call has written to stderr when it returns an error: for a
\* non-success status log::error!("API returned error: {}", ...) through the
\* logger main started, and nothing for any other failure.
Logged(kind, call) ==
    IF kind = "status" THEN <<<<"API returned error", call>>>> ELSE <<>>

\* What a failed remote call of an influx run leaves on stderr: what api_call
\* logged, and then the line for the error main returns.
Diagnostics(kind, call) == Logged(kind, call) \o <<Reported(call)>>

\* let start = parse_date(start)?; let end = parse_end_date(end)?;   (both Ok)
ParseDatesOk ==
    /\ pc = "dates"
    /\ parse_date(from)[1] = "Ok"
    /\ parse_end_date(to)[1] = "Ok"
    /\ window' = <<parse_date(from)[2], parse_end_date(to)[2]>>
    /\ pc' = "resources"
    /\ UNCHANGED library
    /\ UNCHANGED <<sensors, remote, device, no_strip, resources, queue, si, order,
                   measurements, before, arrived, requests, output, stderr, result,
                   run, previous, from, to>>

\* let start = parse_date(start)?; let end = parse_end_date(end)?;   (one is
\* Err: influx returns it before anything is requested)
ParseDatesErr ==
    /\ pc = "dates"
    /\ parse_date(from)[1] = "Err" \/ parse_end_date(to)[1] = "Err"
    /\ Abort
    /\ stderr' = Append(stderr, Reported("dates"))
    /\ UNCHANGED library
    /\ UNCHANGED <<sensors, remote, device, no_strip, resources, queue, si, order,
                   measurements, before, arrived, requests, output,
                   run, previous, dates>>

\* let resources = api.resources().await?;   (the call succeeds)
FetchResourcesOk ==
    /\ pc = "resources"
    /\ requests' = Append(requests, Request("resources", "", "ok"))
    /\ resources' = ResourceIds
    /\ pc' = "select"
    /\ UNCHANGED library
    /\ UNCHANGED dates
    /\ UNCHANGED <<sensors, remote, device, no_strip, queue, si, order, measurements,
                   before, arrived, output, stderr, result, run, previous>>

\* let resources = api.resources().await?;   (the call fails)
FetchResourcesErr ==
    /\ pc = "resources"
    /\ requests' = Append(requests, Request("resources", "", "err"))
    /\ Abort
    /\ \E kind \in FailureKinds : stderr' = stderr \o Diagnostics(kind, "resources")
    /\ UNCHANGED library
    /\ UNCHANGED dates
    /\ UNCHANGED <<sensors, remote, device, no_strip, resources, queue, si, order,
                   measurements, before, arrived, output, run, previous>>

\* if let Some(device) = api.device(&device).await? { process_device(...) }
FetchDeviceFound ==
    /\ pc = "select"
    /\ device # NoDevice
    /\ ApiDevice(device) # <<>>
    /\ requests' = Append(requests, Request("device", device, "ok"))
    /\ order' = ApiDevice(device)
    /\ queue' = Position(ApiDevice(device), 1)[1]
    /\ si' = Position(ApiDevice(device), 1)[2]
    /\ pc' = IF Position(ApiDevice(device), 1)[1] = <<>> THEN "strip" ELSE "process"
    /\ UNCHANGED library
    /\ UNCHANGED dates
    /\ UNCHANGED <<sensors, remote, device, no_strip, resources, measurements, before,
                   arrived, output, stderr, result, run, previous>>

\* FetchDeviceUnknown that returns an error for the unknown device.
FetchDeviceUnknownFatal ==
    /\ pc = "select"
    /\ device # NoDevice
    /\ ApiDevice(device) = <<>>
    /\ requests' = Append(requests, Request("device", device, "none"))
    /\ stderr' = Append(stderr, <<"Error: Unknown device", device>>)
    /\ Abort
    /\ UNCHANGED library
    /\ UNCHANGED dates
    /\ UNCHANGED <<sensors, remote, device, no_strip, resources, queue, si, order,
                   measurements, before, arrived, output, run, previous>>

\* ... else { eprintln!("Error: Unknown device {}", device); }
FetchDeviceUnknown ==
    /\ pc = "select"
    /\ device # NoDevice
    /\ ApiDevice(device) = <<>>
    /\ requests' = Append(requests, Request("device", device, "none"))
    /\ stderr' = Append(stderr, <<"Error: Unknown device", device>>)
    /\ pc' = "strip"
    /\ UNCHANGED library
    /\ UNCHANGED dates
    /\ UNCHANGED <<sensors, remote, device, no_strip, resources, queue, si, order,
                   measurements, before, arrived, output, result, run, previous>>

\* api.device(&device).await?   (the call fails)
FetchDeviceErr ==
    /\ pc = "select"
    /\ device # NoDevice
    /\ requests' = Append(requests, Request("device", device, "err"))
    /\ Abort
    /\ \E kind \in FailureKinds : stderr' = stderr \o Diagnostics(kind, "device")
    /\ UNCHANGED library
    /\ UNCHANGED dates
    /\ UNCHANGED <<sensors, remote, device, no_strip, resources, queue, si, order,
                   measurements, before, arrived, output, run, previous>>

\* let devices = api.devices().await?.into_values();   (the call succeeds)
FetchDevicesOk ==
    /\ pc = "select"
    /\ device = NoDevice
    /\ requests' = Append(requests, Request("devices", "", "ok"))
    /\ \E o \in DeviceOrders :
          /\ order' = o
          /\ queue' = Position(o, 1)[1]
          /\ si' = Position(o, 1)[2]
          /\ pc' = IF Position(o, 1)[1] = <<>> THEN "strip" ELSE "process"
    /\ UNCHANGED library
    /\ UNCHANGED dates
    /\ UNCHANGED <<sensors, remote, device, no_strip, resources, measurements, before,
                   arrived, output, stderr, result, run, previous>>

\* FetchDevicesErr that carries on as if the account had no device.
FetchDevicesErrIgnored ==
    /\ pc = "select"
    /\ device = NoDevice
    /\ requests' = Append(requests, Request("devices", "", "err"))
    /\ pc' = "strip"
    /\ UNCHANGED library
    /\ UNCHANGED dates
    /\ UNCHANGED <<sensors, remote, device, no_strip, resources, queue, si, order,
                   measurements, before, arrived, output, stderr, result, run, previous>>

\* let devices = api.devices().await?.into_values();   (the call fails)
FetchDevicesErr ==
    /\ pc = "select"
    /\ device = NoDevice
    /\ requests' = Append(requests, Request("devices", "", "err"))
    /\ Abort
    /\ \E kind \in FailureKinds : stderr' = stderr \o Diagnostics(kind, "devices")
    /\ UNCHANGED library
    /\ UNCHANGED dates
    /\ UNCHANGED <<sensors, remote, device, no_strip, resources, queue, si, order,
                   measurements, before, arrived, output, run, previous>>

\* The sensor process_device is at, and what follows it.
CurrentDevice == Head(queue)
CurrentResource == sensors[Head(queue)][si]

Proceed ==
    /\ queue' = Position(queue, si + 1)[1]
    /\ si' = Position(queue, si + 1)[2]
    /\ pc' = IF Position(queue, si + 1)[1] = <<>> THEN "strip" ELSE "process"

\* SkipSensor that fails the run for the unknown resource id.
SkipSensorFatal ==
    /\ pc = "process"
    /\ CurrentResource \notin resources
    /\ Abort
    /\ UNCHANGED library
    /\ UNCHANGED dates
    /\ UNCHANGED <<sensors, remote, device, no_strip, resources, queue, si, order,
                   measurements, before, arrived, requests, output, stderr, run, previous>>

\* if let Some(resource) = resources.get(&sensor.resource_id) { ... }   (None)
SkipSensor ==
    /\ pc = "process"
    /\ CurrentResource \notin resources
    /\ Proceed
    /\ UNCHANGED library
    /\ UNCHANGED dates
    /\ UNCHANGED <<sensors, remote, device, no_strip, resources, order, measurements,
                   before, arrived, requests, output, stderr, result, run, previous>>

\* api.readings(...).await? succeeds; for reading in readings { ... push }
ReadingsOk ==
    /\ pc = "process"
    /\ CurrentResource \in resources
    /\ \E data \in IF CurrentResource \in DOMAIN remote
                      THEN {remote[CurrentResource]}
                      ELSE Responses(MaxReadings - Held) :
          /\ remote' = [r \in DOMAIN remote \cup {CurrentResource} |->
                          IF r = CurrentResource THEN data ELSE remote[r]]
          /\ LET built == Built(CurrentDevice, CurrentResource,
                                Readings(data, "HalfHour"))
             IN  /\ measurements' = PushAll(measurements, built)
                 /\ arrived' = arrived \o built
    /\ requests' = Append(requests,
                          Request("readings", <<CurrentDevice, si, CurrentResource>>, "ok"))
    /\ Proceed
    /\ UNCHANGED library
    /\ UNCHANGED dates
    /\ UNCHANGED <<sensors, device, no_strip, resources, order, before, output,
                   stderr, result, run, previous>>

\* ReadingsErr that gives up the current device only and goes on with the next.
ReadingsErrSkipsDevice ==
    /\ pc = "process"
    /\ CurrentResource \in resources
    /\ requests' = Append(requests,
                          Request("readings", <<CurrentDevice, si, CurrentResource>>, "err"))
    /\ queue' = Position(Tail(queue), 1)[1]
    /\ si' = Position(Tail(queue), 1)[2]
    /\ pc' = IF Position(Tail(queue), 1)[1] = <<>> THEN "strip" ELSE "process"
    /\ UNCHANGED library
    /\ UNCHANGED dates
    /\ UNCHANGED <<sensors, remote, device, no_strip, resources, order, measurements,
                   before, arrived, output, stderr, result, run, previous>>

\* ReadingsErr that, for a single requested device, reports the failure and
\* lets the run go on to its end.
ReadingsErrSingleReports ==
    /\ pc = "process"
    /\ CurrentResource \in resources
    /\ requests' = Append(requests,
                          Request("readings", <<CurrentDevice, si, CurrentResource>>, "err"))
    /\ IF device = NoDevice
          THEN /\ Abort
               /\ UNCHANGED <<queue, si, stderr>>
          ELSE /\ Proceed
               /\ result' = result
               /\ stderr' = Append(stderr, <<"Error: readings", CurrentResource>>)
    /\ UNCHANGED library
    /\ UNCHANGED dates
    /\ UNCHANGED <<sensors, remote, device, no_strip, resources, order,
                   measurements, before, arrived, output, run, previous>>

\* ReadingsErr that issues the failed request again.
ReadingsErrRetries ==
    /\ pc = "process"
    /\ CurrentResource \in resources
    /\ requests' = Append(requests,
                          Request("readings", <<CurrentDevice, si, CurrentResource>>, "err"))
    /\ UNCHANGED library
    /\ UNCHANGED dates
    /\ UNCHANGED <<sensors, remote, device, no_strip, pc, resources, queue, si, order,
                   measurements, before, arrived, output, stderr, result, run, previous>>

\* api.readings(...).await?   (the call fails)
ReadingsErr ==
    /\ pc = "process"
    /\ CurrentResource \in resources
    /\ requests' = Append(requests,
                          Request("readings", <<CurrentDevice, si, CurrentResource>>, "err"))
    /\ Abort
    /\ \E kind \in FailureKinds : stderr' = stderr \o Diagnostics(kind, "readings")
    /\ UNCHANGED library
    /\ UNCHANGED dates
    /\ UNCHANGED <<sensors, remote, device, no_strip, resources, queue, si, order,
                   measurements, before, arrived, output, run, previous>>

\* if !no_strip { ... }  for ... { println!("{}", measurement); }  Ok(())
StripAndWrite ==
    /\ pc = "strip"
    /\ before' = measurements
    /\ measurements' = Stripped(measurements, no_strip)
    /\ output' = output \o Lines(Stripped(measurements, no_strip))
    /\ result' = "ok"
    /\ pc' = "done"
    /\ UNCHANGED library
    /\ UNCHANGED dates
    /\ UNCHANGED <<sensors, remote, device, no_strip, resources, queue, si, order,
                   arrived, requests, stderr, run, previous>>

\* The command is run again with the same arguments on the same account.
Rerun ==
    /\ pc = "done"
    /\ run < MaxRuns
    /\ run' = run + 1
    /\ previous' = [output |-> output, result |-> result]
    /\ pc' = "dates"
    /\ window' = <<>>
    /\ resources' = {}
    /\ queue' = <<>>
    /\ si' = 1
    /\ order' = <<>>
    /\ measurements' = <<>>
    /\ before' = <<>>
    /\ arrived' = <<>>
    /\ requests' = <<>>
    /\ output' = <<>>
    /\ stderr' = <<>>
    /\ result' = "running"
    /\ UNCHANGED library
    /\ UNCHANGED <<sensors, remote, device, no_strip, from, to>>

Next ==
    \/ ParseDatesOk
    \/ ParseDatesErr
    \/ FetchResourcesOk
    \/ FetchResourcesErr
    \/ FetchDeviceFound
    \/ FetchDeviceUnknown
    \/ FetchDeviceErr
    \/ FetchDevicesOk
    \/ FetchDevicesErr
    \/ SkipSensor
    \/ ReadingsOk
    \/ ReadingsErr
    \/ StripAndWrite

Spec == Init /\ [][Next]_vars

NextRepeat == Next \/ Rerun

SpecRepeat == Init /\ [][NextRepeat]_vars

\* ------------------------------------------ one call of GlowmarktApi::readings
\* A call of readings for any period, on any data the remote may answer with.
InitReadings ==
    /\ PipelineIdle
    /\ DeviceIdle
    /\ LoginIdle
    /\ call_data \in SeqsUpTo(ReadingTuple, MaxReadings)
    /\ call_period \in ReadingPeriod
    /\ returned = <<"pending">>

\* self.query_request(...).request().await? succeeds: the data tuples become readings.
CallReadingsOk ==
    /\ returned = <<"pending">>
    /\ returned' = <<"ok", Readings(call_data, call_period)>>
    /\ UNCHANGED <<call_data, call_period>>
    /\ UNCHANGED <<pipeline, deviceCall, loginCall>>

\* self.query_request(...).request().await? fails: readings returns the error.
CallReadingsErr ==
    /\ returned = <<"pending">>
    /\ returned' = <<"err">>
    /\ \E kind \in FailureKinds : stderr' = stderr \o Logged(kind, "readings")
    /\ UNCHANGED <<call_data, call_period>>
    /\ UNCHANGED <<influxState, deviceCall, loginCall>>

NextReadings ==
    \/ CallReadingsOk
    \/ CallReadingsErr

SpecReadings == InitReadings /\ [][NextReadings]_vars

\* ------------------------------------------------- one call of process_device
\* The responses the remote gives to the readings requests of this call.
DeviceResponses == {<<>>, <<<<1, 0>>>>, <<<<1, 35>>, <<2, 0>>>>}

\* process_device is called for a device whose sensors' resources are all in
\* the resource collection:  let tags = tags_for_device(&device);
InitDevice ==
    /\ PipelineIdle
    /\ ReadingsIdle
    /\ LoginIdle
    /\ owner \in DeviceIds
    /\ device_tags = tags_for_device(owner)
    /\ todo \in SeqsUpTo(DeviceResourceIds, MaxSensors)
    /\ mapped = <<>>

\* MapSensor that inserts the resource's tags into the device's tag set itself.
MapSensorExtendsInPlace ==
    /\ todo # <<>>
    /\ \E response \in DeviceResponses :
          LET readings == Readings(response, "HalfHour")
          IN  mapped' = Append(mapped,
                  [resource |-> Head(todo), outcome |-> "ok", readings |-> readings,
                   measurements |-> BuiltWith(device_tags, Head(todo), readings)])
    /\ device_tags' = tags_for_resource(device_tags, Head(todo))
    /\ todo' = Tail(todo)
    /\ UNCHANGED owner
    /\ UNCHANGED <<pipeline, readingsCall, loginCall>>

\* One turn of  for sensor in device.protocol.sensors { ... }  whose readings
\* request succeeds: the resource's tags are made from a borrow of tags, and
\* one measurement is built per reading.
MapSensor ==
    /\ todo # <<>>
    /\ \E response \in DeviceResponses :
          LET readings == Readings(response, "HalfHour")
          IN  mapped' = Append(mapped,
                  [resource |-> Head(todo), outcome |-> "ok", readings |-> readings,
                   measurements |-> BuiltWith(device_tags, Head(todo), readings)])
    /\ todo' = Tail(todo)
    /\ UNCHANGED <<owner, device_tags>>
    /\ UNCHANGED <<pipeline, readingsCall, loginCall>>

\* One turn whose readings request fails: process_device returns the error.
MapSensorErr ==
    /\ todo # <<>>
    /\ mapped' = Append(mapped,
            [resource |-> Head(todo), outcome |-> "err", readings |-> <<>>,
             measurements |-> <<>>])
    /\ todo' = <<>>
    /\ \E kind \in FailureKinds : stderr' = stderr \o Logged(kind, "readings")
    /\ UNCHANGED <<owner, device_tags>>
    /\ UNCHANGED <<influxState, readingsCall, loginCall>>

NextDevice ==
    \/ MapSensor
    \/ MapSensorErr

SpecDevice == InitDevice /\ [][NextDevice]_vars

\* ------------------------------------------------------- one call of login
\* HTTP status codes of the remote's responses.
Statuses == {200, 204, 401, 404, 500}

\* Response bodies: a valid response with valid true ("valid") or valid false
\* ("flag_false"), an error object ("error"), or text that does not
\* deserialize ("malformed").
Bodies == {"valid", "flag_false", "error", "malformed"}

\* client.execute(request) failed: there is no response.
NoResponse == [status |-> 0, body |-> "none"]

HttpResponses == [status : Statuses, body : Bodies] \cup {NoResponse}

\* response.status().is_success()
IsSuccess(status) == status \in 200..299

\* The token of a valid authentication response.
NewToken == "t1"

\* serde_json::from_str::<T>(&result) is Ok: the struct AuthResponse of lib.rs
\* needs the fields of a valid response, the untagged enum ValidateResponse
\* also takes an error object.
Deserializes(T, body) ==
    CASE T = "AuthResponse"     -> body \in {"valid", "flag_false"}
      [] T = "ValidateResponse" -> body \in {"valid", "flag_false", "error"}

\* api_call that does not look at the response's status.
api_call_unchecked(response, T) ==
    IF response = NoResponse
        THEN <<"Err", "ApiError", "error sending request">>
    ELSE IF ~Deserializes(T, response.body)
        THEN <<"Err", "ApiError", "error decoding response body">>
    ELSE <<"Ok", response.body>>

\* GlowmarktEndpoint::api_call: the body deserialized as T, or an error.
\* Which way api_call takes on a response: "status" when it logs the status
\* and returns (if !response.status().is_success()), "other" when the request
\* got no response, and "none" when the status is a success.
FailureKind(response) ==
    IF response = NoResponse THEN "other"
    ELSE IF ~IsSuccess(response.status) THEN "status"
    ELSE "none"

api_call(response, T) ==
    IF response = NoResponse
        THEN <<"Err", "ApiError", "error sending request">>
    ELSE IF ~IsSuccess(response.status)
        THEN <<"Err", "ApiError", "API returned unexpected response">>
    ELSE IF ~Deserializes(T, response.body)
        THEN <<"Err", "ApiError", "error decoding response body">>
    ELSE <<"Ok", response.body>>

\* AuthResponse::validate of api.rs
AuthResponseValidate(body) ==
    CASE body = "valid"      -> <<"Ok", NewToken>>
      [] body = "flag_false" -> <<"Err", "NotAuthenticated", "Authentication error">>
      [] body = "error"      -> <<"Err", "NotAuthenticated", "error.message">>

\* ValidateResponse::validate
ValidateResponseValidate(body) ==
    CASE body = "valid"      -> <<"Ok", body>>
      [] body = "flag_false" -> <<"Err", "NotAuthenticated", "Authentication error">>
      [] body = "error"      -> <<"Err", "NotAuthenticated", "error.message">>

\* format!("Error authenticating: {}", e)
ErrorAuthenticating(message) ==
    CASE message = "error sending request" ->
            "Error authenticating: error sending request"
      [] message = "API returned unexpected response" ->
            "Error authenticating: API returned unexpected response"
      [] message = "error decoding response body" ->
            "Error authenticating: error decoding response body"

\* GlowmarktEndpoint::authenticate: the new handle's token, or an error made
\* from a message.
Authenticate(response) ==
    LET called == api_call(response, "AuthResponse")
    IN  IF called[1] = "Err"
            THEN <<"Err", "Unspecified", ErrorAuthenticating(called[3])>>
        ELSE IF called[2] # "valid"
            THEN <<"Err", "Unspecified", "Authentication error">>
        ELSE <<"Ok", NewToken>>

\* GlowmarktApi::validate: the token is checked by the remote.
ApiValidate(response) ==
    LET called == api_call(response, "ValidateResponse")
    IN  IF called[1] = "Err" THEN called ELSE ValidateResponseValidate(called[2])

Exchange(call, response, outcome) ==
    [call |-> call, response |-> response, outcome |-> outcome]

\* --token, --username and --password, each given or not.
InitLogin ==
    /\ PipelineIdle
    /\ ReadingsIdle
    /\ DeviceIdle
    /\ args \in [token : {<<>>, <<"t0">>}, username : {<<>>, <<"u">>},
                  password : {<<>>, <<"p">>}]
    /\ lpc = "token"
    /\ exchanges = <<>>
    /\ api = <<>>
    /\ lresult = <<"running">>

\* ValidateToken that goes on to the credentials after any validation error.
ValidateTokenFallsThrough ==
    /\ lpc = "token"
    /\ args.token # <<>>
    /\ \E response \in HttpResponses :
          LET outcome == ApiValidate(response)
          IN  /\ exchanges' = Append(exchanges, Exchange("validate", response, outcome))
              /\ stderr' = stderr \o Logged(FailureKind(response), "validate")
              /\ IF outcome[1] = "Ok"
                    THEN /\ api' = <<[token |-> args.token[1]]>>
                         /\ lresult' = <<"Ok">>
                         /\ lpc' = "done"
                    ELSE /\ lpc' = "credentials"
                         /\ UNCHANGED <<api, lresult>>
    /\ UNCHANGED args
    /\ UNCHANGED <<influxState, readingsCall, deviceCall>>

\* if let Some(ref token) = args.token { match api.validate().await { ... } }
ValidateToken ==
    /\ lpc = "token"
    /\ args.token # <<>>
    /\ \E response \in HttpResponses :
          LET outcome == ApiValidate(response)
          IN  /\ exchanges' = Append(exchanges, Exchange("validate", response, outcome))
              /\ stderr' = stderr \o Logged(FailureKind(response), "validate")
              /\ IF outcome[1] = "Ok"
                    THEN /\ api' = <<[token |-> args.token[1]]>>
                         /\ lresult' = <<"Ok">>
                         /\ lpc' = "done"
                    ELSE IF outcome[2] # "NotAuthenticated"
                    THEN /\ lresult' = <<"Err", outcome[3]>>
                         /\ lpc' = "done"
                         /\ UNCHANGED api
                    ELSE /\ lpc' = "credentials"
                         /\ UNCHANGED <<api, lresult>>
    /\ UNCHANGED args
    /\ UNCHANGED <<influxState, readingsCall, deviceCall>>

\* if let Some(ref token) = args.token   (None)
NoToken ==
    /\ lpc = "token"
    /\ args.token = <<>>
    /\ lpc' = "credentials"
    /\ UNCHANGED <<args, exchanges, api, lresult>>
    /\ UNCHANGED <<pipeline, readingsCall, deviceCall>>

\* GlowmarktApi::authenticate(username, password).await.str_err()
AuthenticateCredentials ==
    /\ lpc = "credentials"
    /\ args.username # <<>>
    /\ args.password # <<>>
    /\ \E response \in HttpResponses :
          LET outcome == Authenticate(response)
          IN  /\ exchanges' = Append(exchanges, Exchange("authenticate", response, outcome))
              /\ stderr' = stderr \o Logged(FailureKind(response), "authenticate")
              /\ IF outcome[1] = "Ok"
                    THEN /\ api' = <<[token |-> outcome[2]]>>
                         /\ lresult' = <<"Ok">>
                    ELSE /\ lresult' = <<"Err", outcome[3]>>
                         /\ UNCHANGED api
    /\ lpc' = "done"
    /\ UNCHANGED args
    /\ UNCHANGED <<influxState, readingsCall, deviceCall>>

\* else { Err("Must pass username and password.".to_string()) }
MissingCredentials ==
    /\ lpc = "credentials"
    /\ args.username = <<>> \/ args.password = <<>>
    /\ lresult' = <<"Err", "Must pass username and password.">>
    /\ lpc' = "done"
    /\ UNCHANGED <<args, exchanges, api>>
    /\ UNCHANGED <<pipeline, readingsCall, deviceCall>>

NextLogin ==
    \/ ValidateToken
    \/ NoToken
    \/ AuthenticateCredentials
    \/ MissingCredentials

SpecLogin == InitLogin /\ [][NextLogin]_vars

\* ------------------------------------------------------------ properties
\* The run is still aggregating, or was aborted while aggregating.
Aggregating == pc \in {"dates", "resources", "select", "process", "strip"}
                 \/ (pc = "done" /\ result = "err")

\* The run has ended with Ok(()): `before` is the map the strip step started
\* from, `measurements` the map it left and `output` the lines written from it.
Finished == pc = "done" /\ result = "ok"

\* The bucket of timestamp t, empty when the map has no such key.
BucketAt(map, t) == IF t \in Keys(map) THEN Get(map, t) ELSE <<>>

\* The elements of a sequence of measurements that carry timestamp t.
AtTime(ms, t) == LET at(m) == m.timestamp = t IN SelectSeq(ms, at)

\* The written lines that carry timestamp t.
LinesAtTime(ls, t) == LET at(l) == l[4] = t IN SelectSeq(ls, at)

LinesOf(ms) == [i \in 1..Len(ms) |-> Line(ms[i])]

\* The field value pattern of a map: whether each bucket, ascending, is all zero.
ZeroPattern(map) == [i \in 1..Len(map) |-> AllZero(map[i].bucket)]

\* C1: with trimming enabled, an all-zero bucket that has a later bucket with a
\* non-zero value is never removed: the scan stops at the first bucket that is
\* not all zero, so [0, 5, 0] leaves [0, 5].
C1_ZeroBeforeNonZeroSurvives ==
    (Finished /\ ~no_strip) =>
        \A i \in 1..Len(before) :
            (/\ AllZero(before[i].bucket)
             /\ \E j \in (i + 1)..Len(before) : ~AllZero(before[j].bucket))
            => before[i].key \in Keys(measurements)

\* C2: with trimming enabled, every bucket of the maximal run of all-zero
\* buckets that ends at the most recent timestamp is removed, and every bucket
\* holding a non-zero value stays: [5, 0, 0] leaves [5], all zero leaves nothing.
C2_TrailingZeroRunRemoved ==
    (Finished /\ ~no_strip) =>
        /\ \A i \in 1..Len(before) :
              (\A j \in i..Len(before) : AllZero(before[j].bucket))
              => before[i].key \notin Keys(measurements)
        /\ \A i \in 1..Len(before) :
              ~AllZero(before[i].bucket)
              => /\ before[i].key \in Keys(measurements)
                 /\ Get(measurements, before[i].key) = before[i].bucket
        /\ (\A i \in 1..Len(before) : AllZero(before[i].bucket)) => measurements = <<>>

\* Buckets [5, 0, 0] were trimmed to [5].
C2_Witness ==
    /\ Finished
    /\ ~no_strip
    /\ ZeroPattern(before) = <<FALSE, TRUE, TRUE>>
    /\ measurements = <<before[1]>>

\* C3: with no_strip the trimming step changes nothing and every measurement
\* built is written, trailing zero buckets included; readings
\* [(t0, 3.5), (t1, 0.0)] give two lines with no_strip and the t0 line without.
C3_NoStripKeepsEverything ==
    /\ (Finished /\ no_strip) => measurements = before
    /\ (Finished /\ no_strip) =>
          /\ Len(output) = Len(arrived)
          /\ \A t \in Timestamps :
                Len(LinesAtTime(output, t)) = Len(AtTime(arrived, t))
    /\ (/\ Finished
        /\ Len(arrived) = 2
        /\ arrived[1].timestamp < arrived[2].timestamp
        /\ arrived[1].fields = <<<<"consumption", 35>>>>
        /\ arrived[2].fields = <<<<"consumption", 0>>>>)
       => output = IF no_strip THEN <<Line(arrived[1]), Line(arrived[2])>>
                               ELSE <<Line(arrived[1])>>

\* Readings [(t0, 3.5), (t1, 0.0)] were written as two lines under no_strip.
C3_Witness ==
    /\ Finished
    /\ no_strip
    /\ Len(arrived) = 2
    /\ arrived[1].timestamp < arrived[2].timestamp
    /\ arrived[1].fields = <<<<"consumption", 35>>>>
    /\ arrived[2].fields = <<<<"consumption", 0>>>>
    /\ Len(output) = 2

\* C4: a successful run writes exactly one line per measurement that survived
\* trimming, and the lines are in non-decreasing timestamp order whatever the
\* order in which devices, sensors and readings were processed.
C4_OneLinePerSurvivorAscending ==
    Finished =>
        /\ \A t \in Timestamps :
              Len(LinesAtTime(output, t)) = Len(BucketAt(measurements, t))
        /\ \A i \in 1..Len(output) :
              \E t \in Keys(measurements) : \E k \in 1..Len(Get(measurements, t)) :
                  output[i] = Line(Get(measurements, t)[k])
        /\ \A i, j \in 1..Len(output) : i < j => output[i][4] <= output[j][4]

\* Lines of two buckets, one of them with two measurements, were written after
\* the later timestamp had arrived first.
C4_Witness ==
    /\ Finished
    /\ Len(output) >= 3
    /\ Len(measurements) >= 2
    /\ \E i \in 1..Len(measurements) : Len(measurements[i].bucket) >= 2
    /\ \E i, j \in 1..Len(arrived) : i < j /\ arrived[i].timestamp > arrived[j].timestamp

\* C5: after any sequence of insertions every measurement lies in exactly one
\* bucket, the one keyed by its own timestamp, and the keys of the map are
\* strictly ascending.
C5_BucketsByTimestampAscending ==
    Aggregating =>
        /\ \A i \in 1..Len(measurements) :
              /\ measurements[i].bucket # <<>>
              /\ \A k \in 1..Len(measurements[i].bucket) :
                    measurements[i].bucket[k].timestamp = measurements[i].key
        /\ \A i, j \in 1..Len(measurements) :
              i < j => measurements[i].key < measurements[j].key
        /\ \A t \in Timestamps :
              Len(BucketAt(measurements, t)) = Len(AtTime(arrived, t))
        /\ \A n \in 1..Len(arrived) :
              \E k \in 1..Len(BucketAt(measurements, arrived[n].timestamp)) :
                  BucketAt(measurements, arrived[n].timestamp)[k] = arrived[n]

\* Two measurements of different resources share one bucket, and a key smaller
\* than an existing one was inserted.
C5_Witness ==
    /\ Aggregating
    /\ \E i \in 1..Len(measurements) : \E k, l \in 1..Len(measurements[i].bucket) :
          measurements[i].bucket[k].tags.resource # measurements[i].bucket[l].tags.resource
    /\ \E i, j \in 1..Len(arrived) : i < j /\ arrived[i].timestamp > arrived[j].timestamp

\* The measurements of the sensors k, k+1, ... of device d, in the order
\* process_device builds them from the remote's data.
RECURSIVE SensorArrivals(_, _)
SensorArrivals(d, k) ==
    IF k > Len(sensors[d]) THEN <<>>
    ELSE (IF sensors[d][k] \in ResourceIds /\ sensors[d][k] \in DOMAIN remote
             THEN Built(d, sensors[d][k], Readings(remote[sensors[d][k]], "HalfHour"))
             ELSE <<>>)
         \o SensorArrivals(d, k + 1)

\* The measurements of the devices of o: device by device, sensor by sensor,
\* reading by reading.
RECURSIVE DeviceArrivals(_)
DeviceArrivals(o) ==
    IF o = <<>> THEN <<>>
    ELSE SensorArrivals(Head(o), 1) \o DeviceArrivals(Tail(o))

C7_RepeatedRunsIdentical ==
    (run = 2 /\ Finished /\ previous.result = "ok") => output = previous.output

Failed(calls) ==
    {i \in 1..Len(requests) : requests[i].call \in calls /\ requests[i].outcome = "err"}

ReadingsRequests == {i \in 1..Len(requests) : requests[i].call = "readings"}

\* C8: in an all-devices run the first failing readings fetch ends the run:
\* no request follows it, the run has ended with an error and nothing was
\* written, also when other readings had been fetched before.
C8_ReadingsFailureFatal ==
    device = NoDevice =>
        \A i \in Failed({"readings"}) :
            /\ i = Len(requests)
            /\ pc = "done"
            /\ result = "err"
            /\ output = <<>>

\* The readings of one device were fetched and the fetch for the other failed.
C8_Witness ==
    /\ device = NoDevice
    /\ Failed({"readings"}) # {}
    /\ arrived # <<>>
    /\ arrived[1].tags.device # requests[Len(requests)].arg[1]
    /\ pc = "done"

\* C9: when fetching the resource collection or the device(s) fails, the run
\* ends with an error, issues no readings request and writes no line.
C9_ResolutionFailureFatal ==
    Failed({"resources", "device", "devices"}) # {} =>
        /\ pc = "done"
        /\ result = "err"
        /\ ReadingsRequests = {}
        /\ output = <<>>
        /\ arrived = <<>>

\* The resource collection was fetched and the fetch of the devices failed.
C9_Witness ==
    /\ Len(requests) = 2
    /\ requests[1].outcome = "ok"
    /\ requests[2].call = "devices"
    /\ requests[2].outcome = "err"
    /\ result = "err"

\* The lookup of the requested device was answered and the account has no such device.
UnknownDeviceAnswered ==
    \E i \in 1..Len(requests) :
        /\ requests[i].call = "device"
        /\ requests[i].outcome # "err"
        /\ ApiDevice(requests[i].arg) = <<>>

\* C10: in single-device mode an id that is not found is reported as
\* 'Unknown device'; no readings request is issued, no other device is
\* processed, no line is written and the run does not end with an error.
C10_UnknownDeviceNotFatal ==
    UnknownDeviceAnswered =>
        /\ stderr = <<<<"Error: Unknown device", device>>>>
        /\ ReadingsRequests = {}
        /\ order = <<>>
        /\ queue = <<>>
        /\ arrived = <<>>
        /\ output = <<>>
        /\ result # "err"
        /\ pc \in {"strip", "done"}
        /\ pc = "done" => result = "ok"

\* A run for an unknown device id has finished.
C10_Witness ==
    /\ UnknownDeviceAnswered
    /\ device = UnknownDevice
    /\ pc = "done"
    /\ result = "ok"

\* C11 (as stated): a readings-fetch failure is not treated the same way in
\* the two selection modes: it ends an all-devices run with an error, and a
\* single-device run skips or reports it and goes on.
C11_FailurePolicyDiffers ==
    \A i \in Failed({"readings"}) :
        /\ device = NoDevice => result = "err"
        /\ device # NoDevice => result # "err"

\* C11 (amended): a readings-fetch failure is treated the same way in both
\* selection modes: it is the last request of the run, the run has ended with
\* an error and nothing was written to standard output, for a single requested
\* device as for all.
C11_FailurePolicySame ==
    \A i \in Failed({"readings"}) :
        /\ i = Len(requests)
        /\ pc = "done"
        /\ result = "err"
        /\ output = <<>>

\* A single-device run whose second readings fetch failed.
C11_Witness ==
    /\ device \in DeviceIds
    /\ Failed({"readings"}) # {}
    /\ Len(requests) = 4
    /\ result = "err"

\* The (device, sensor) pairs of the readings requests issued so far.
RequestedPairs ==
    {<<requests[i].arg[1], requests[i].arg[2]>> : i \in ReadingsRequests}

\* C12: no remote call is retried: in one run the resource collection is
\* fetched at most once and a readings request is issued at most once per
\* (device, sensor) pair, whether the call succeeds or fails.
C12_NoRetry ==
    /\ \A i, j \in 1..Len(requests) :
          (requests[i].call = "resources" /\ requests[j].call = "resources") => i = j
    /\ \A i, j \in ReadingsRequests :
          (/\ requests[i].arg[1] = requests[j].arg[1]
           /\ requests[i].arg[2] = requests[j].arg[2]) => i = j
    /\ \A i \in 1..Len(requests) : requests[i].outcome = "err" => i = Len(requests)

\* One resource was requested for two sensors, and the second request failed.
C12_Witness ==
    /\ pc = "done"
    /\ Len(requests) = 4
    /\ requests[3].call = "readings"
    /\ requests[3].outcome = "ok"
    /\ requests[4].outcome = "err"
    /\ requests[3].arg[3] = requests[4].arg[3]

\* C18: trimming only deletes whole buckets: the surviving buckets are buckets
\* of the map before trimming, each with the same measurements in the same
\* order, and they follow each other as they did before.
C18_TrimKeepsBucketsWhole ==
    Finished =>
        /\ Keys(measurements) \subseteq Keys(before)
        /\ LET survives(e) == e.key \in Keys(measurements)
           IN  measurements = SelectSeq(before, survives)

\* A bucket holding a zero and a non-zero measurement survived the trimming
\* that removed another bucket.
C18_Witness ==
    /\ Finished
    /\ ~no_strip
    /\ Len(measurements) < Len(before)
    /\ \E i \in 1..Len(measurements) :
          /\ Len(measurements[i].bucket) = 2
          /\ measurements[i].bucket[1].fields[1][2] = 0
          /\ measurements[i].bucket[2].fields[1][2] # 0

\* The (device, sensor) pairs of the run's devices whose resource is in the
\* resource collection.
KnownPairs ==
    {<<order[i], k>> : i \in 1..Len(order), k \in 1..MaxSensors + 1} \cap
    {p \in DeviceIds \X (1..MaxSensors + 1) :
        p[2] <= Len(sensors[p[1]]) /\ sensors[p[1]][p[2]] \in ResourceIds}

\* C19: a sensor whose resource id is not in the resource collection is
\* skipped silently: no readings request is issued for it, it contributes no
\* measurement and no error, and the other sensors and devices are processed.
C19_UnknownResourceSkipped ==
    /\ \A i \in ReadingsRequests : requests[i].arg[3] \in ResourceIds
    /\ \A n \in 1..Len(arrived) : arrived[n].tags.resource \in ResourceIds
    /\ (result = "err" /\ window # <<>>) =>
          Failed({"resources", "device", "devices", "readings"}) # {}
    /\ Finished => RequestedPairs = KnownPairs

\* A run has ended Ok in which the sensor after an unknown resource's sensor,
\* and the device after that device, were requested.
C19_Witness ==
    /\ Finished
    /\ \E p \in RequestedPairs :
          \E d \in DeviceIds : \E k \in 1..Len(sensors[d]) :
              /\ sensors[d][k] = UnknownResource
              /\ \/ (d = p[1] /\ k < p[2])
                 \/ (d # p[1] /\ order = <<d, p[1]>>)

\* C13: every reading returned by the readings operation with period P ends
\* the fixed length of P after its start (half-hour 30 minutes, hour 1 hour,
\* day 24 hours, week 7 days, in seconds), and the readings are as many as
\* the remote data tuples and in their order, each with its tuple's start
\* and value.
C13_ReadingEndsOnePeriodLater ==
    returned[1] = "ok" =>
        LET readings == returned[2]
            length   == CASE call_period = "HalfHour" -> 1800
                          [] call_period = "Hour"     -> 3600
                          [] call_period = "Day"      -> 86400
                          [] call_period = "Week"     -> 604800
        IN  /\ Len(readings) = Len(call_data)
            /\ \A i \in 1..Len(readings) :
                  /\ readings[i].start = call_data[i][1]
                  /\ readings[i].value = call_data[i][2]
                  /\ readings[i].end = readings[i].start + length

\* A week's readings were returned for tuples that are not in time order.
C13_Witness ==
    /\ returned[1] = "ok"
    /\ call_period = "Week"
    /\ Len(returned[2]) = MaxReadings
    /\ returned[2][1].start > returned[2][2].start
    /\ returned[2][1].end = returned[2][1].start + 604800

\* C14: every measurement built has exactly one field; its key is the
\* field-name table's entry for the classifier of the measurement's resource,
\* or "value" when the classifier is not in the table or absent, whatever the
\* device, the resource id and the reading; its value is the reading's value.
C14_OneFieldKeyedByClassifier ==
    \A n \in 1..Len(mapped) :
        /\ Len(mapped[n].measurements) = Len(mapped[n].readings)
        /\ \A i \in 1..Len(mapped[n].measurements) :
              LET m          == mapped[n].measurements[i]
                  classifier == ClassifierOf(mapped[n].resource)
              IN  /\ Len(m.fields) = 1
                  /\ m.fields[1][1] =
                        CASE classifier = "electricity.consumption" -> "consumption"
                          [] classifier = "electricity.cost"        -> "cost"
                          [] OTHER                                  -> "value"
                  /\ m.fields[1][2] = mapped[n].readings[i].value
                  /\ m.timestamp = mapped[n].readings[i].start

\* Measurements were built for a resource whose classifier is in the table
\* and for one whose classifier is not.
C14_Witness ==
    /\ Len(mapped) = 2
    /\ ClassifierOf(mapped[1].resource) = "electricity.cost"
    /\ ClassifierOf(mapped[2].resource) = "gas.flow"
    /\ Len(mapped[1].measurements) = 2
    /\ mapped[1].measurements[1].fields = <<<<"cost", 35>>>>
    /\ Len(mapped[2].measurements) = 1
    /\ mapped[2].measurements[1].fields = <<<<"value", 0>>>>

\* The resources of the sensors of the device being processed.
SensorResources ==
    {mapped[n].resource : n \in 1..Len(mapped)} \cup {todo[k] : k \in 1..Len(todo)}

\* C16: the tag set built for one resource extends the device's tag set
\* without changing it: the device's tag set stays what tags_for_device gave,
\* and the tags of a measurement are the device's tags, the id of its own
\* resource and at most the classifier of its own resource, never the id or
\* the classifier of another resource of the device.
C16_ResourceTagsExtendDeviceTags ==
    /\ owner # NoDevice => device_tags = tags_for_device(owner)
    /\ \A n \in 1..Len(mapped) : \A i \in 1..Len(mapped[n].measurements) :
          LET t == mapped[n].measurements[i].tags
              r == mapped[n].resource
          IN  /\ \A k \in DOMAIN device_tags : k \in DOMAIN t /\ t[k] = device_tags[k]
              /\ DOMAIN t \subseteq DOMAIN device_tags \cup {"resource", "classifier"}
              /\ t.resource = r
              /\ "classifier" \in DOMAIN t => t.classifier = ClassifierOf(r)
              /\ ClassifierOf(r) = "absent" => "classifier" \notin DOMAIN t
              /\ \A other \in SensorResources \ {r} :
                    /\ t.resource # other
                    /\ ("classifier" \in DOMAIN t /\ ClassifierOf(other) # ClassifierOf(r))
                          => t.classifier # ClassifierOf(other)

\* A resource without classifier was processed after one with a classifier,
\* and measurements were built for both.
C16_Witness ==
    /\ Len(mapped) = 2
    /\ ClassifierOf(mapped[1].resource) = "electricity.consumption"
    /\ ClassifierOf(mapped[2].resource) = "absent"
    /\ mapped[1].measurements # <<>>
    /\ mapped[2].measurements # <<>>
    /\ mapped[1].measurements[1].tags.classifier = "electricity.consumption"
    /\ DOMAIN mapped[2].measurements[1].tags = {"device", "resource"}

\* The token was validated, and this is how the validation ended.
Validated(outcomes) ==
    /\ exchanges # <<>>
    /\ exchanges[1].call = "validate"
    /\ \/ ("Ok" \in outcomes /\ exchanges[1].outcome[1] = "Ok")
       \/ (exchanges[1].outcome[1] = "Err" /\ exchanges[1].outcome[2] \in outcomes)

BothCredentials == args.username # <<>> /\ args.password # <<>>

\* login has no usable token: none was given, or the one given is not valid.
NoUsableToken ==
    \/ (args.token = <<>> /\ lpc # "token")
    \/ Validated({"NotAuthenticated"})

\* C15: a supplied token is validated before anything else and, if valid,
\* login returns its handle without authenticating; after a NotAuthenticated
\* validation with username and password supplied login authenticates and a
\* success gives a handle with the new token; any other validation error ends
\* login with that error and no authentication; with no usable token and
\* username or password missing login fails with 'Must pass username and
\* password.' and no authentication.
C15_LoginProtocol ==
    /\ (args.token # <<>> /\ lpc # "token") =>
          (exchanges # <<>> /\ exchanges[1].call = "validate")
    /\ \A i \in 1..Len(exchanges) :
          /\ exchanges[i].call = "validate" => (i = 1 /\ args.token # <<>>)
          /\ exchanges[i].call = "authenticate" =>
                (i = Len(exchanges) /\ BothCredentials /\ NoUsableToken)
    /\ Validated({"Ok"}) =>
          /\ Len(exchanges) = 1
          /\ lpc = "done"
          /\ lresult = <<"Ok">>
          /\ api = <<[token |-> args.token[1]]>>
    /\ Validated({"ApiError"}) =>
          /\ Len(exchanges) = 1
          /\ lpc = "done"
          /\ lresult = <<"Err", exchanges[1].outcome[3]>>
          /\ api = <<>>
    /\ (lpc = "done" /\ NoUsableToken /\ BothCredentials) =>
          LET last == exchanges[Len(exchanges)]
          IN  /\ last.call = "authenticate"
              /\ last.outcome[1] = "Ok" =>
                    (lresult = <<"Ok">> /\ api = <<[token |-> NewToken]>>)
              /\ last.outcome[1] = "Err" =>
                    (lresult = <<"Err", last.outcome[3]>> /\ api = <<>>)
    /\ (lpc = "done" /\ NoUsableToken /\ ~BothCredentials) =>
          /\ lresult = <<"Err", "Must pass username and password.">>
          /\ api = <<>>
          /\ \A i \in 1..Len(exchanges) : exchanges[i].call # "authenticate"

\* A token that is not valid was replaced by authenticating with the
\* credentials.
C15_Witness ==
    /\ lpc = "done"
    /\ Len(exchanges) = 2
    /\ Validated({"NotAuthenticated"})
    /\ exchanges[2].call = "authenticate"
    /\ lresult = <<"Ok">>
    /\ api = <<[token |-> NewToken]>>

\* C17: a remote call whose response has a non-success status, or that got no
\* response, yields an error and never a deserialized result; authentication
\* also fails on a successful response that is not a valid one with valid
\* true, so a handle made by authenticating always comes from a successful
\* response whose valid flag is true.
C17_NonSuccessIsError ==
    /\ \A i \in 1..Len(exchanges) :
          LET e == exchanges[i]
          IN  /\ ~IsSuccess(e.response.status) => e.outcome[1] = "Err"
              /\ (e.call = "authenticate" /\ e.response.body # "valid")
                    => e.outcome[1] = "Err"
              /\ e.outcome[1] = "Ok" =>
                    (IsSuccess(e.response.status) /\ e.response.body = "valid")
    /\ (api # <<>> /\ exchanges # <<>>) =>
          LET last == exchanges[Len(exchanges)]
          IN  /\ last.outcome[1] = "Ok"
              /\ IsSuccess(last.response.status)
              /\ last.response.body = "valid"
    /\ lresult = <<"Ok">> <=> api # <<>>
    /\ \A body \in Bodies \ {"malformed"} :
          AuthResponseValidate(body)[1] = "Ok" => body = "valid"

\* Authentication answered with a non-success status and a body that would
\* deserialize as valid: login failed and holds no handle.
C17_Witness ==
    /\ Authenticate([status |-> 200, body |-> "flag_false"])[1] = "Err"
    /\ Authenticate([status |-> 200, body |-> "error"])[3] =
          "Error authenticating: error decoding response body"
    /\ lpc = "done"
    /\ exchanges # <<>>
    /\ exchanges[Len(exchanges)].call = "authenticate"
    /\ exchanges[Len(exchanges)].response = [status |-> 401, body |-> "valid"]
    /\ exchanges[Len(exchanges)].outcome[1] = "Err"
    /\ api = <<>>
====
